---------------------------- MODULE Spec2Model ----------------------------
(***************************************************************************)
(* Process supervision and busy bookkeeping of nix-software-center.        *)
(*                                                                         *)
(*   - InstallAsyncHandler (src/ui/installworker.rs): the worker that runs *)
(*     `nix profile install/remove` for one package in a spawned task.     *)
(*   - UpdateAsyncHandler (src/ui/updateworker.rs): the worker that runs   *)
(*     the bulk `nix profile upgrade` in a spawned task.                   *)
(*   - UpdatePageModel (src/ui/updatepage.rs): the page that gates and     *)
(*     dispatches bulk upgrades and takes the update worker's outcomes.    *)
(*   - AppModel (src/ui/window.rs): the busy list installedpagebusy and    *)
(*     its two handlers; the commands for the installed-package refresh,   *)
(*     the search and the network check, and update_cmd.                   *)
(*                                                                         *)
(* A spawned task advances from one await point to the next in one step;   *)
(* the worker's update() handles one message in one step.                  *)
(***************************************************************************)
EXTENDS Naturals, Sequences, FiniteSets

\* ------------------------------------------------------------------ bounds

\* Process messages handled by the install worker in one run.
MaxSubmit == 2
\* Lines of stderr a subprocess of the install worker writes at most.
MaxLines == 1
\* Messages handled by the update worker in one run.
MaxUpdate == 2
\* Length of the busy list installedpagebusy.
MaxBusy == 3
\* Messages emitted by the window and not yet taken by their component.
MaxQueue == 1
\* Commands the window starts in one run.
MaxCommands == 3
\* AppMsg messages the update page outputs in one run.
MaxPageOut == 2
\* Bulk upgrades requested on the update page in one run.
MaxRequests == 1

\* ------------------------------------------------------------- data model

\* Option<T>: None is the empty sequence, Some(x) the one-element sequence.
None == << >>
Some(x) == << x >>

\* The packages of the model: attribute path (pkg) and package name (pname).
Packages == { [pkg |-> "htop", pname |-> "htop"],
              [pkg |-> "vim-full", pname |-> "vim"] }

InstallType == {"User", "System"}
PkgAction == {"Install", "Remove"}

\* WorkPkg, as the workers and the window read it.
WorkPkg == { [pkg |-> p.pkg, pname |-> p.pname, pkgtype |-> t, action |-> a, block |-> b] :
               p \in Packages, t \in InstallType, a \in PkgAction, b \in BOOLEAN }

\* The work items Process messages carry: every scope, action and blocking
\* flag, with htop as the package installed and vim-full as the one removed.
ProcessInputs == { w \in WorkPkg : (w.action = "Install") <=> (w.pkg = "htop") }

\* Option<u32> values SetPid carries.
Pids == {None, Some(7)}

\* What p.wait().await returns: Ok(status) with an exit code, or Err.
WaitResults == {"exit0", "exit1", "waiterr"}

\* How the read loop over stderr ends: next_line() returns Ok(None) or Err.
ReadEnds == {"eof", "readerr"}

\* Inventories of the user profile, as the (package, version) pairs of the
\* HashMap getprofilepkgs_versioned() returns.
Inventories == { {}, { << "htop", "3.2" >> }, { << "htop", "3.3" >> },
                 { << "htop", "3.3" >>, << "vim-full", "9.0" >> } }

\* Texts typed into the search entry.
Queries == {"htop", "vim", "nix"}

\* Removal lists UpdateUserPkgsRemove carries.
RmLists == { << >>, << "htop" >>, << "htop", "vim-full" >> }

VARIABLES
    \* InstallAsyncHandler
    process,        \* Option<JoinHandle>: the task the worker tracks
    pid,            \* Option<u32>
    tasks,          \* every task the worker spawned, in spawn order
    submitted,      \* history: the work of every Process message handled
    installout,     \* history: every PkgMsg the worker or its tasks output
    \* UpdateAsyncHandler
    updateprocess,  \* Option<JoinHandle>
    updatetasks,    \* every task the update worker spawned
    updateout,      \* history: every UpdatePageMsg output
    \* AppModel
    installedpagebusy,  \* Vec<(String, InstallType)>
    pkgpagein,          \* PkgMsg emitted to the package page, not yet taken
    installedpagein,    \* InstalledPageMsg emitted to the installed page
    relayed,            \* how many entries of installout the package page took
    \* UpdatePageModel
    online,             \* UpdatePageModel.online
    updatein,           \* messages sent to the update worker, not yet handled
    lookups,            \* spawned unavailablepkgs() lookups still running
    updatepageout,      \* history: every AppMsg the update page output
    delivered,          \* how many entries of updateout the update page took
    iconrefreshes,      \* calls of nix_data::utils::refreshicons()
    \* the system
    network,            \* what util::checkonline() returns when called now
    \* AppModel, commands and update_cmd
    apponline,          \* AppModel.online
    installeduserpkgs,  \* AppModel.installeduserpkgs: HashMap<String, String>
    searching,          \* AppModel.searching
    searchquery,        \* AppModel.searchquery
    commands,           \* every command the window started, in start order
    cmdout,             \* AppAsyncMsg sent by commands, not yet handled
    emitted             \* history: messages sent by update_cmd and commands

installVars == << process, pid, tasks, submitted, installout >>
updateVars == << updateprocess, updatetasks, updateout >>
windowVars == << installedpagebusy, pkgpagein, installedpagein >>
updatePageVars == << online, updatein, lookups, updatepageout, delivered,
                     iconrefreshes >>
commandVars == << apponline, installeduserpkgs, searching, searchquery,
                  commands, cmdout, emitted >>
asyncVars == << network, commandVars >>
pageVars == << relayed, updatePageVars, asyncVars >>
vars == << process, pid, tasks, submitted, installout,
           updateprocess, updatetasks, updateout,
           installedpagebusy, pkgpagein, installedpagein,
           relayed, online, updatein, lookups, updatepageout, delivered,
           iconrefreshes, network,
           apponline, installeduserpkgs, searching, searchquery,
           commands, cmdout, emitted >>

Init ==
    /\ process = None
    /\ pid = None
    /\ tasks = << >>
    /\ submitted = << >>
    /\ installout = << >>
    /\ updateprocess = None
    /\ updatetasks = << >>
    /\ updateout = << >>
    /\ installedpagebusy = << >>
    /\ pkgpagein = << >>
    /\ installedpagein = << >>
    /\ relayed = 0
    /\ online = TRUE
    /\ updatein = << >>
    /\ lookups = 0
    /\ updatepageout = << >>
    /\ delivered = 0
    /\ iconrefreshes = 0
    /\ network = TRUE
    /\ apponline = TRUE
    /\ installeduserpkgs = {}
    /\ searching = FALSE
    /\ searchquery = ""
    /\ commands = << >>
    /\ cmdout = << >>
    /\ emitted = << >>


\* ------------------------------------------------- InstallAsyncHandler

\* The command line the Install task spawns.
InstallCommand(work) ==
    << "nix", "profile", "install", << "nixpkgs#", work.pkg >>, "--impure" >>

\* A Remove task that passes --impure as the Install task does.
RemoveCommandImpure(work) ==
    << "nix", "profile", "remove", << "legacyPackages.x86_64-linux.", work.pkg >>,
       "--impure" >>

\* The command line the Remove task spawns.
RemoveCommand(work) ==
    << "nix", "profile", "remove", << "legacyPackages.x86_64-linux.", work.pkg >> >>

\* match work.action { Install => ..., Remove => ... }
Command(work) ==
    IF work.action = "Install" THEN InstallCommand(work) ELSE RemoveCommand(work)

\* A worker that never takes the early return of a blocking work item.
IsBlockedNever(work) == FALSE

\* A worker that takes no work once one of its items has failed.
IsBlockedAfterFailure(work) ==
    work.block \/ \E i \in DOMAIN installout : installout[i].msg = "FailedProcess"

\* if work.block { return; }
IsBlocked(work) == work.block

\* A worker whose scope match sends every work item to the User arm.
ScopeArmUserOnly(work) == "User"

\* match work.pkgtype: the arm update() takes.
ScopeArm(work) == work.pkgtype

\* A PkgMsg output for the work of the sub-th Process message.
Outcome(msg, work, sub) == [msg |-> msg, work |-> work, sub |-> sub]

\* The task relm4::spawn creates; it has not been polled yet.
NewTask(work, sub) ==
    [work |-> work, sub |-> sub, pc |-> "spawn", cmd |-> None, lines |-> 0,
     status |-> "none"]

\* A task that reports every exit status wait() returns as a success.
WaitOutcomeAnyExit(res) ==
    IF res = "waiterr" THEN "FailedProcess" ELSE "FinishedProcess"

\* match p.wait().await: the message the task outputs.
WaitOutcome(res) ==
    IF res = "exit0" THEN "FinishedProcess" ELSE "FailedProcess"

\* A task that has neither finished, panicked nor been aborted.
Running(task) == task.pc \in {"spawn", "drain", "wait", "waitreaderr"}

\* InstallAsyncHandlerMsg::Process(work): what update() does to the worker.
ProcessWork(work) ==
    /\ Len(submitted) < MaxSubmit
    /\ submitted' = Append(submitted, work)
    /\ IF IsBlocked(work)
       THEN UNCHANGED << process, pid, tasks, installout >>
       ELSE IF ScopeArm(work) = "User"
            THEN /\ tasks' = Append(tasks, NewTask(work, Len(submitted) + 1))
                 /\ process' = Some(Len(tasks) + 1)
                 /\ UNCHANGED << pid, installout >>
            ELSE /\ installout' = Append(installout,
                        Outcome("FailedProcess", work, Len(submitted) + 1))
                 /\ UNCHANGED << process, pid, tasks >>

\* The worker handles a Process message sent to it.
Process(work) ==
    /\ ProcessWork(work)
    /\ UNCHANGED << updateVars, windowVars, pageVars >>

\* A cancellation that aborts every running task, tracked or not.
AbortAll(ts, handle) ==
    [t \in DOMAIN ts |-> IF Running(ts[t]) THEN [ts[t] EXCEPT !.pc = "aborted"] ELSE ts[t]]

\* A cancellation whose abort() has no effect on the task.
AbortNothing(ts, handle) == ts

\* process.abort(): a task that is still running is cancelled at its await
\* point (its child is killed on drop); a task that has ended is untouched.
Abort(ts, handle) ==
    IF handle = None THEN ts
    ELSE [ts EXCEPT ![handle[1]] =
             IF Running(@) THEN [@ EXCEPT !.pc = "aborted"] ELSE @]

\* A cancellation that forgets to clear the pid.
CancelledKeepsPid(handle, p) == << None, p >>

\* The fields CancelProcess leaves behind: << process, pid >>.
Cancelled(handle, p) == << None, None >>

\* InstallAsyncHandlerMsg::CancelProcess
CancelProcess ==
    /\ tasks' = Abort(tasks, process)
    /\ process' = Cancelled(process, pid)[1]
    /\ pid' = Cancelled(process, pid)[2]
    /\ UNCHANGED << submitted, installout, updateVars, windowVars, pageVars >>

\* InstallAsyncHandlerMsg::SetPid(pid)
SetPid(p) ==
    /\ pid' = p
    /\ UNCHANGED << process, tasks, submitted, installout, updateVars, windowVars, pageVars >>

\* First poll of a task: Command::new("nix")...spawn().expect(..).  A spawn
\* error panics the task: it ends there and outputs nothing.
TaskSpawn(t, ok) ==
    /\ tasks[t].pc = "spawn"
    /\ tasks' = [tasks EXCEPT ![t] =
           IF ok THEN [@ EXCEPT !.pc = "drain", !.cmd = Some(Command(tasks[t].work))]
                 ELSE [@ EXCEPT !.pc = "panicked", !.status = "spawnerr"]]
    /\ UNCHANGED << process, pid, submitted, installout, updateVars, windowVars, pageVars >>

\* while let Ok(Some(line)) = lines.next_line().await: one line is logged.
TaskReadLine(t) ==
    /\ tasks[t].pc = "drain"
    /\ tasks[t].lines < MaxLines
    /\ tasks' = [tasks EXCEPT ![t].lines = @ + 1]
    /\ UNCHANGED << process, pid, submitted, installout, updateVars, windowVars, pageVars >>

\* The position of a task at p.wait().await: "wait" when the read loop saw
\* the end of stderr, "waitreaderr" when it stopped at a read error.
WaitPc(how) == IF how = "eof" THEN "wait" ELSE "waitreaderr"

\* next_line() returns Ok(None), the end of the stream ("eof"), or Err, a
\* line that cannot be read ("readerr"): either way the loop ends.
TaskDrained(t, how) ==
    /\ tasks[t].pc = "drain"
    /\ tasks' = [tasks EXCEPT ![t].pc = WaitPc(how)]
    /\ UNCHANGED << process, pid, submitted, installout, updateVars, windowVars, pageVars >>

\* A task that runs its command again when it did not exit with zero.
TaskWaitRetries(t, res) ==
    /\ tasks[t].pc \in {WaitPc(how) : how \in ReadEnds}
    /\ IF res = "exit0"
       THEN /\ tasks' = [tasks EXCEPT ![t] = [@ EXCEPT !.pc = "done", !.status = res]]
            /\ installout' = Append(installout,
                   Outcome(WaitOutcome(res), tasks[t].work, tasks[t].sub))
       ELSE /\ tasks' = [tasks EXCEPT ![t] = [@ EXCEPT !.pc = "spawn", !.status = res]]
            /\ UNCHANGED installout
    /\ UNCHANGED << process, pid, submitted, updateVars, windowVars, pageVars >>

\* match p.wait().await { ... }: the outcome is output and the task ends.
TaskWait(t, res) ==
    /\ tasks[t].pc \in {WaitPc(how) : how \in ReadEnds}
    /\ tasks' = [tasks EXCEPT ![t] = [@ EXCEPT !.pc = "done", !.status = res]]
    /\ installout' = Append(installout,
           Outcome(WaitOutcome(res), tasks[t].work, tasks[t].sub))
    /\ UNCHANGED << process, pid, submitted, updateVars, windowVars, pageVars >>

NextInstall ==
    \/ \E work \in ProcessInputs : Process(work)
    \/ CancelProcess
    \/ \E p \in Pids : SetPid(p)
    \/ \E t \in DOMAIN tasks, ok \in BOOLEAN : TaskSpawn(t, ok)
    \/ \E t \in DOMAIN tasks : TaskReadLine(t)
    \/ \E t \in DOMAIN tasks, how \in ReadEnds : TaskDrained(t, how)
    \/ \E t \in DOMAIN tasks, res \in WaitResults : TaskWait(t, res)

SpecInstall == Init /\ [][NextInstall]_vars


\* -------------------------------------------------- UpdateAsyncHandler

\* .args(rmpkgs.iter().map(|x| format!("legacyPackages.x86_64-linux.{}", x)))
RemoveArgs(rmpkgs) ==
    [i \in DOMAIN rmpkgs |-> << "legacyPackages.x86_64-linux.", rmpkgs[i] >>]

\* The `nix profile remove` command of updateprofile.
ProfileRemoveCommand(rmpkgs) ==
    << "nix", "profile", "remove" >> \o RemoveArgs(rmpkgs) \o << "--impure" >>

\* The `nix profile upgrade` command of updateprofile.
ProfileUpgradeCommand == << "nix", "profile", "upgrade", ".*", "--impure" >>

\* An updateprofile without the is_empty() test.
NeedsRemoveIfSome(rmpkgs) == rmpkgs # None

\* An updateprofile that skips the removal pass.
NeedsRemoveNever(rmpkgs) == FALSE

\* if let Some(rmpkgs) = rmpkgs { if !rmpkgs.is_empty() { ... } }
NeedsRemove(rmpkgs) == rmpkgs # None /\ rmpkgs[1] # << >>

\* The task relm4::spawn creates for updateprofile(rmpkgs); rmpkgs is an
\* Option<Vec<String>>.
NewUpdateTask(rmpkgs) ==
    [rmpkgs |-> rmpkgs, pc |-> "start", cmds |-> << >>,
     rmstatus |-> "none", status |-> "none"]

\* What updateprofile returns once cmd.wait().await has: Ok(true), Ok(false),
\* or the error `?` propagates.
UpgradeResult(res) ==
    IF res = "waiterr" THEN "Err"
    ELSE IF res = "exit0" THEN "OkTrue" ELSE "OkFalse"

\* match updateprofile(..).await { Ok(_) => DoneWorking, Err(e) => FailedWorking }
UpdateOutcome(result) ==
    IF result = "Err" THEN "FailedWorking" ELSE "DoneWorking"

\* An UpdatePageMsg output by update task t.
UpdateMsg(msg, t) == [msg |-> msg, task |-> t]

UpdateRunning(task) == task.pc # "done"

\* Both arms of UpdateAsyncHandler::update: the task is spawned and its handle
\* replaces the one held.
UpdateSpawn(rmpkgs) ==
    /\ Len(updatetasks) < MaxUpdate
    /\ updatetasks' = Append(updatetasks, NewUpdateTask(rmpkgs))
    /\ updateprocess' = Some(Len(updatetasks) + 1)
    /\ UNCHANGED updateout

\* The update worker handles a message sent to it.
UpdateSubmit(rmpkgs) ==
    /\ UpdateSpawn(rmpkgs)
    /\ UNCHANGED << installVars, windowVars, pageVars >>

\* UpdateAsyncHandlerMsg::UpdateUserPkgs
UpdateUserPkgs == UpdateSubmit(None)

\* UpdateAsyncHandlerMsg::UpdateUserPkgsRemove(pkgs)
UpdateUserPkgsRemove(pkgs) == UpdateSubmit(Some(pkgs))

\* An updateprofile error that the task swallows.
UpdateFailsSilently(t, field, why) ==
    /\ updatetasks' = [updatetasks EXCEPT ![t] =
           [@ EXCEPT !.pc = "done", ![field] = why]]
    /\ UNCHANGED updateout

\* updateprofile returns Err(..) from a `?`: the task outputs FailedWorking.
UpdateFails(t, field, why) ==
    /\ updatetasks' = [updatetasks EXCEPT ![t] =
           [@ EXCEPT !.pc = "done", ![field] = why]]
    /\ updateout' = Append(updateout, UpdateMsg(UpdateOutcome("Err"), t))

\* Command::new("nix").arg("profile").arg("upgrade")...spawn()?
SpawnUpgrade(t, task, ok) ==
    IF ok
    THEN /\ updatetasks' = [updatetasks EXCEPT ![t] =
                [task EXCEPT !.pc = "updrain",
                             !.cmds = Append(task.cmds, ProfileUpgradeCommand)]]
         /\ UNCHANGED updateout
    ELSE /\ updatetasks' = [updatetasks EXCEPT ![t] =
                [task EXCEPT !.pc = "done", !.status = "spawnerr"]]
         /\ updateout' = Append(updateout, UpdateMsg(UpdateOutcome("Err"), t))

\* First poll of updateprofile: the remove command is spawned when a
\* non-empty list was given, the upgrade command otherwise.
UpdateStart(t, ok) ==
    /\ updatetasks[t].pc = "start"
    /\ IF NeedsRemove(updatetasks[t].rmpkgs)
       THEN IF ok
            THEN /\ updatetasks' = [updatetasks EXCEPT ![t] =
                        [@ EXCEPT !.pc = "rmdrain",
                                  !.cmds = << ProfileRemoveCommand(updatetasks[t].rmpkgs[1]) >>]]
                 /\ UNCHANGED updateout
            ELSE UpdateFails(t, "rmstatus", "spawnerr")
       ELSE SpawnUpgrade(t, updatetasks[t], ok)
    /\ UNCHANGED << updateprocess, installVars, windowVars, pageVars >>

\* The read loop over the stderr of the remove command has ended.
UpdateRemoveDrained(t) ==
    /\ updatetasks[t].pc = "rmdrain"
    /\ updatetasks' = [updatetasks EXCEPT ![t].pc = "rmwait"]
    /\ UNCHANGED << updateprocess, updateout, installVars, windowVars, pageVars >>

\* cmd.wait().await? of the remove command, then the spawn of the upgrade.
UpdateRemoveWait(t, res, ok) ==
    /\ updatetasks[t].pc = "rmwait"
    /\ IF res = "waiterr"
       THEN UpdateFails(t, "rmstatus", res)
       ELSE SpawnUpgrade(t, [updatetasks[t] EXCEPT !.rmstatus = res], ok)
    /\ UNCHANGED << updateprocess, installVars, windowVars, pageVars >>

\* The read loop over the stderr of the upgrade command has ended.
UpdateUpgradeDrained(t) ==
    /\ updatetasks[t].pc = "updrain"
    /\ updatetasks' = [updatetasks EXCEPT ![t].pc = "upwait"]
    /\ UNCHANGED << updateprocess, updateout, installVars, windowVars, pageVars >>

\* cmd.wait().await?.success(), then the match in the spawned task.
UpdateUpgradeWait(t, res) ==
    /\ updatetasks[t].pc = "upwait"
    /\ updatetasks' = [updatetasks EXCEPT ![t] =
           [@ EXCEPT !.pc = "done", !.status = res]]
    /\ updateout' = Append(updateout,
           UpdateMsg(UpdateOutcome(UpgradeResult(res)), t))
    /\ UNCHANGED << updateprocess, installVars, windowVars, pageVars >>

NextUpdate ==
    \/ UpdateUserPkgs
    \/ \E pkgs \in RmLists : UpdateUserPkgsRemove(pkgs)
    \/ \E t \in DOMAIN updatetasks, ok \in BOOLEAN : UpdateStart(t, ok)
    \/ \E t \in DOMAIN updatetasks : UpdateRemoveDrained(t)
    \/ \E t \in DOMAIN updatetasks, res \in WaitResults, ok \in BOOLEAN :
           UpdateRemoveWait(t, res, ok)
    \/ \E t \in DOMAIN updatetasks : UpdateUpgradeDrained(t)
    \/ \E t \in DOMAIN updatetasks, res \in WaitResults : UpdateUpgradeWait(t, res)

SpecUpdate == Init /\ [][NextUpdate]_vars

\* The next poll of update task t: the runtime polls a spawned task whenever
\* the future it awaits is ready, and a command that was spawned exits.
UpdateTaskStep(t) ==
    /\ t \in DOMAIN updatetasks
    /\ \/ \E ok \in BOOLEAN : UpdateStart(t, ok)
       \/ UpdateRemoveDrained(t)
       \/ \E res \in WaitResults, ok \in BOOLEAN : UpdateRemoveWait(t, res, ok)
       \/ UpdateUpgradeDrained(t)
       \/ \E res \in WaitResults : UpdateUpgradeWait(t, res)

SpecUpdateFair ==
    SpecUpdate /\ \A t \in 1..MaxUpdate : WF_vars(UpdateTaskStep(t))


\* ------------------------------------------------- AppModel (busy list)

\* let p = match work.pkgtype { User => work.pname, System => work.pkg };
BusyName(work) == IF work.pkgtype = "User" THEN work.pname ELSE work.pkg

\* The entry of installedpagebusy that stands for work.
BusyEntry(work) == << BusyName(work), work.pkgtype >>

\* The closure of retain: |(x, y)| x != &p && y != &work.pkgtype
RetainEntry(entry, p, pkgtype) == entry[1] # p /\ entry[2] # pkgtype

\* A removal that drops only the first entry the closure rejects.
RECURSIVE RetainDropFirst(_, _, _)
RetainDropFirst(busy, p, pkgtype) ==
    IF busy = << >> THEN << >>
    ELSE IF RetainEntry(Head(busy), p, pkgtype)
         THEN << Head(busy) >> \o RetainDropFirst(Tail(busy), p, pkgtype)
         ELSE Tail(busy)

\* Vec::retain: the entries the closure keeps, in order.
RECURSIVE Retain(_, _, _)
Retain(busy, p, pkgtype) ==
    IF busy = << >> THEN << >>
    ELSE IF RetainEntry(Head(busy), p, pkgtype)
         THEN << Head(busy) >> \o Retain(Tail(busy), p, pkgtype)
         ELSE Retain(Tail(busy), p, pkgtype)

\* Room left in the channels of the page components.
CanEmit == Len(pkgpagein) + Len(installedpagein) < MaxQueue

\* AppMsg::AddInstalledToWorkQueue(work)
AddInstalledToWorkQueue(work) ==
    /\ Len(installedpagebusy) < MaxBusy
    /\ CanEmit
    /\ installedpagebusy' = Append(installedpagebusy, BusyEntry(work))
    /\ pkgpagein' = Append(pkgpagein, [msg |-> "AddToQueue", work |-> work])
    /\ UNCHANGED << installedpagein, installVars, updateVars, pageVars >>

\* AppMsg::RemoveInstalledBusy(work): what update() does to the window.
RemoveBusy(work) ==
    /\ CanEmit
    /\ installedpagebusy' = Retain(installedpagebusy, BusyName(work), work.pkgtype)
    /\ installedpagein' = Append(installedpagein, [msg |-> "UnsetBusy", work |-> work])
    /\ UNCHANGED pkgpagein

\* The window handles a RemoveInstalledBusy message sent to it.
RemoveInstalledBusy(work) ==
    /\ RemoveBusy(work)
    /\ UNCHANGED << installVars, updateVars, pageVars >>

\* The package page takes the next message sent to it.
PkgPageTake ==
    /\ pkgpagein # << >>
    /\ pkgpagein' = Tail(pkgpagein)
    /\ UNCHANGED << installedpagebusy, installedpagein, installVars, updateVars, pageVars >>

\* The installed page takes the next message sent to it.
InstalledPageTake ==
    /\ installedpagein # << >>
    /\ installedpagein' = Tail(installedpagein)
    /\ UNCHANGED << installedpagebusy, pkgpagein, installVars, updateVars, pageVars >>

NextWindow ==
    \/ \E work \in WorkPkg : AddInstalledToWorkQueue(work)
    \/ \E work \in WorkPkg : RemoveInstalledBusy(work)
    \/ PkgPageTake
    \/ InstalledPageTake

SpecWindow == Init /\ [][NextWindow]_vars


\* --------------------- window, package page and install worker together

\* The package page takes AddToQueue(work) and hands the work to the install
\* worker as Process(work), which the worker handles.
PkgPageAddToQueue ==
    /\ pkgpagein # << >>
    /\ Head(pkgpagein).msg = "AddToQueue"
    /\ pkgpagein' = Tail(pkgpagein)
    /\ ProcessWork(Head(pkgpagein).work)
    /\ UNCHANGED << installedpagebusy, installedpagein, updateVars, pageVars >>

\* The package page takes the next outcome of the install worker and sends
\* RemoveInstalledBusy(work) to the window, which handles it.
PkgPageOutcome ==
    /\ relayed < Len(installout)
    /\ relayed' = relayed + 1
    /\ RemoveBusy(installout[relayed + 1].work)
    /\ UNCHANGED << installVars, updateVars, updatePageVars, asyncVars >>

NextApp ==
    \/ \E work \in ProcessInputs : AddInstalledToWorkQueue(work)
    \/ PkgPageAddToQueue
    \/ PkgPageOutcome
    \/ InstalledPageTake
    \/ CancelProcess
    \/ \E t \in DOMAIN tasks, ok \in BOOLEAN : TaskSpawn(t, ok)
    \/ \E t \in DOMAIN tasks : TaskReadLine(t)
    \/ \E t \in DOMAIN tasks, how \in ReadEnds : TaskDrained(t, how)
    \/ \E t \in DOMAIN tasks, res \in WaitResults : TaskWait(t, res)

SpecApp == Init /\ [][NextApp]_vars


\* ------------------------------------------------------------ both workers

\* The install worker has handled nothing yet.
InstallUntouched == submitted = << >> /\ tasks = << >> /\ pid = None

\* The update worker has handled nothing yet.
UpdateUntouched == updatetasks = << >>

\* The two workers share no field and exchange no message: a run of the
\* pair is followed here for one worker at a time.
NextWorkers ==
    \/ UpdateUntouched /\ NextInstall
    \/ InstallUntouched /\ NextUpdate

SpecWorkers == Init /\ [][NextWorkers]_vars

\* ------------------------------------------------------ UpdatePageModel

\* What nix_data::cache::profile::unavailablepkgs().await returns: an error,
\* or the packages of the profile that are no longer available.
LookupResults == { [ok |-> FALSE, pkgs |-> << >>],
                   [ok |-> TRUE, pkgs |-> << >>],
                   [ok |-> TRUE, pkgs |-> << "htop" >>] }

\* A lookup whose result is always taken as empty.
UnwrapAsEmpty(result) == << >>

\* .unwrap_or_default()
UnwrapOrDefault(result) == IF result.ok THEN result.pkgs ELSE << >>

\* An AppMsg the update page outputs.
AppMsg(msg, pkgs) == [msg |-> msg, pkgs |-> pkgs]

\* A message sent to the update worker; rmpkgs is what updateprofile gets.
WorkerMsg(msg, rmpkgs) == [msg |-> msg, rmpkgs |-> rmpkgs]

\* Requests the page has handed on and that have not ended in the worker.
UpdateLoad == lookups + Len(updatein) + Len(updatetasks)

\* A page that takes every connectivity check as online.
OfflineNever(isonline) == FALSE

\* let online = util::checkonline(); if !online { ... return; }
Offline(isonline) == ~isonline

\* UpdatePageMsg::UpdateAllUser; isonline is what util::checkonline() returns.
UpdateAllUser(isonline) ==
    /\ IF Offline(isonline)
       THEN /\ Len(updatepageout) < MaxPageOut
            /\ updatepageout' = Append(updatepageout, AppMsg("CheckNetwork", << >>))
            /\ online' = FALSE
            /\ UNCHANGED lookups
       ELSE /\ UpdateLoad < MaxRequests
            /\ lookups' = lookups + 1
            /\ UNCHANGED << updatepageout, online >>
    /\ UNCHANGED << updatein, delivered, iconrefreshes, relayed,
                    installVars, updateVars, windowVars, asyncVars >>

\* The task UpdateAllUser spawned: unavailablepkgs() has returned.
UnavailableLookup(result) ==
    /\ lookups > 0
    /\ lookups' = lookups - 1
    /\ IF UnwrapOrDefault(result) = << >>
       THEN /\ updatein' = Append(updatein, WorkerMsg("UpdateUserPkgs", None))
            /\ UNCHANGED updatepageout
       ELSE /\ Len(updatepageout) < MaxPageOut
            /\ updatepageout' = Append(updatepageout,
                   AppMsg("GetUnavailableItems", UnwrapOrDefault(result)))
            /\ UNCHANGED updatein
    /\ UNCHANGED << online, delivered, iconrefreshes, relayed,
                    installVars, updateVars, windowVars, asyncVars >>

\* UpdatePageMsg::UpdateAllUserRm(pkgs)
UpdateAllUserRm(pkgs) ==
    /\ UpdateLoad < MaxRequests
    /\ updatein' = Append(updatein, WorkerMsg("UpdateUserPkgsRemove", Some(pkgs)))
    /\ UNCHANGED << online, lookups, updatepageout, delivered, iconrefreshes,
                    relayed, installVars, updateVars, windowVars, asyncVars >>

\* UpdatePageMsg::DoneWorking and UpdatePageMsg::FailedWorking: the page takes
\* the next message the update worker output.
UpdatePageOutcome ==
    /\ delivered < Len(updateout)
    /\ delivered' = delivered + 1
    /\ IF updateout[delivered + 1].msg = "DoneWorking"
       THEN /\ Len(updatepageout) < MaxPageOut
            /\ iconrefreshes' = iconrefreshes + 1
            /\ updatepageout' = Append(updatepageout,
                   AppMsg("UpdateInstalledPkgs", << >>))
       ELSE UNCHANGED << iconrefreshes, updatepageout >>
    /\ UNCHANGED << online, updatein, lookups, relayed,
                    installVars, updateVars, windowVars, asyncVars >>

\* UpdatePageMsg::UpdateOnline(online)
UpdateOnline(isonline) ==
    /\ online' = isonline
    /\ UNCHANGED << updatein, lookups, updatepageout, delivered, iconrefreshes,
                    relayed, installVars, updateVars, windowVars, asyncVars >>

\* The update worker takes the next message sent to it and handles it.
UpdateWorkerTake ==
    /\ updatein # << >>
    /\ updatein' = Tail(updatein)
    /\ UpdateSpawn(Head(updatein).rmpkgs)
    /\ UNCHANGED << online, lookups, updatepageout, delivered, iconrefreshes,
                    relayed, installVars, windowVars, asyncVars >>

\* The connectivity of the system changes.
NetworkChanges ==
    /\ network' = ~network
    /\ UNCHANGED << relayed, updatePageVars, installVars, updateVars, windowVars,
                    commandVars >>

NextUpdatePage ==
    \/ NetworkChanges
    \/ UpdateAllUser(network)
    \/ \E result \in LookupResults : UnavailableLookup(result)
    \/ \E pkgs \in RmLists : UpdateAllUserRm(pkgs)
    \/ UpdatePageOutcome
    \/ \E isonline \in BOOLEAN : UpdateOnline(isonline)
    \/ UpdateWorkerTake
    \/ \E t \in DOMAIN updatetasks, ok \in BOOLEAN : UpdateStart(t, ok)
    \/ \E t \in DOMAIN updatetasks : UpdateRemoveDrained(t)
    \/ \E t \in DOMAIN updatetasks, res \in WaitResults, ok \in BOOLEAN :
           UpdateRemoveWait(t, res, ok)
    \/ \E t \in DOMAIN updatetasks : UpdateUpgradeDrained(t)
    \/ \E t \in DOMAIN updatetasks, res \in WaitResults : UpdateUpgradeWait(t, res)

SpecUpdatePage == Init /\ [][NextUpdatePage]_vars


\* ------------------------------------------- AppModel: installed packages

\* What getprofilepkgs_versioned().await returns.
ProfileResults == { [ok |-> FALSE, pkgs |-> {}] }
                      \cup { [ok |-> TRUE, pkgs |-> inv] : inv \in Inventories }

\* if let Ok(pkgs) = pkgs { pkgs } else { HashMap::new() }
ProfileOrEmpty(result) == IF result.ok THEN result.pkgs ELSE {}

\* self.installeduserpkgs.keys()
Keys(inv) == { pair[1] : pair \in inv }

\* A command the window started: kind names it, arg is what it captured.
NewCommand(kind, arg) == [kind |-> kind, arg |-> arg, pc |-> "running"]

\* The variables no handler of the window's commands writes.
otherVars == << relayed, updatePageVars, installVars, updateVars, windowVars >>

\* AppMsg::UpdateInstalledPkgs: the refresh command is started.
UpdateInstalledPkgs ==
    /\ Len(commands) < MaxCommands
    /\ commands' = Append(commands, NewCommand("refresh", << >>))
    /\ UNCHANGED << network, apponline, installeduserpkgs, searching, searchquery,
                    cmdout, emitted, otherVars >>

\* The refresh command ends: it sends AppAsyncMsg::UpdateInstalledPkgs.
RefreshDone(c, result) ==
    /\ commands[c].kind = "refresh" /\ commands[c].pc = "running"
    /\ commands' = [commands EXCEPT ![c].pc = "done"]
    /\ cmdout' = Append(cmdout, [msg |-> "UpdateInstalledPkgs",
                                 pkgs |-> ProfileOrEmpty(result)])
    /\ UNCHANGED << network, apponline, installeduserpkgs, searching, searchquery,
                    emitted, otherVars >>

\* A window that takes every refresh result as a change.
DiffersAlways(new, cached) == TRUE

\* if installeduserpkgs != self.installeduserpkgs
Differs(new, cached) == new # cached

\* What the handler of AppAsyncMsg::UpdateInstalledPkgs sends when the
\* result differs: AppMsg::UpdateInstalledPage to the window itself and,
\* while searching, SearchPageMsg::UpdateInstalled to the search page.
InventoryMessages(new, insearch) ==
    << [to |-> "app", msg |-> "UpdateInstalledPage"] >>
        \o IF insearch
           THEN << [to |-> "searchpage", msg |-> "UpdateInstalled", keys |-> Keys(new)] >>
           ELSE << >>

\* update_cmd, AppAsyncMsg::UpdateInstalledPkgs(_, installeduserpkgs)
AsyncUpdateInstalledPkgs ==
    /\ cmdout # << >>
    /\ Head(cmdout).msg = "UpdateInstalledPkgs"
    /\ cmdout' = Tail(cmdout)
    /\ IF Differs(Head(cmdout).pkgs, installeduserpkgs)
       THEN /\ installeduserpkgs' = Head(cmdout).pkgs
            /\ emitted' = emitted \o InventoryMessages(Head(cmdout).pkgs, searching)
       ELSE UNCHANGED << installeduserpkgs, emitted >>
    /\ UNCHANGED << network, apponline, searching, searchquery, commands, otherVars >>

\* AppMsg::SetSearch(show)
SetSearch(show) ==
    /\ searching' = show
    /\ UNCHANGED << network, apponline, installeduserpkgs, searchquery, commands,
                    cmdout, emitted, otherVars >>

NextInventory ==
    \/ UpdateInstalledPkgs
    \/ \E c \in DOMAIN commands, result \in ProfileResults : RefreshDone(c, result)
    \/ AsyncUpdateInstalledPkgs
    \/ \E show \in BOOLEAN : SetSearch(show)

SpecInventory == Init /\ [][NextInventory]_vars


\* ------------------------------------------------------ AppModel: search

\* AppMsg::Search(search): the query is recorded and the search command is
\* started with a copy of it.
Search(q) ==
    /\ Len(commands) < MaxCommands
    /\ searchquery' = q
    /\ commands' = Append(commands, NewCommand("search", q))
    /\ UNCHANGED << network, apponline, installeduserpkgs, searching, cmdout,
                    emitted, otherVars >>

\* The search command ends.  When the database was opened it sends
\* AppAsyncMsg::Search(search, outpkgs); the items are named here by the
\* command that computed them.  Otherwise it ends without a message.
SearchDone(c, opened) ==
    /\ commands[c].kind = "search" /\ commands[c].pc = "running"
    /\ IF opened
       THEN /\ commands' = [commands EXCEPT ![c].pc = "done"]
            /\ cmdout' = Append(cmdout, [msg |-> "Search", q |-> commands[c].arg,
                                         items |-> c])
       ELSE /\ commands' = [commands EXCEPT ![c].pc = "failed"]
            /\ UNCHANGED cmdout
    /\ UNCHANGED << network, apponline, installeduserpkgs, searching, searchquery,
                    emitted, otherVars >>

\* A window that forwards every search result.
IsCurrentAlways(q, current) == TRUE

\* if search == self.searchquery
IsCurrent(q, current) == q = current

\* update_cmd, AppAsyncMsg::Search(search, pkgitems)
AsyncSearch ==
    /\ cmdout # << >>
    /\ Head(cmdout).msg = "Search"
    /\ cmdout' = Tail(cmdout)
    /\ IF IsCurrent(Head(cmdout).q, searchquery)
       THEN emitted' = Append(emitted, [to |-> "searchpage", msg |-> "Search",
                                        items |-> Head(cmdout).items])
       ELSE UNCHANGED emitted
    /\ UNCHANGED << network, apponline, installeduserpkgs, searching, searchquery,
                    commands, otherVars >>

NextSearch ==
    \/ \E q \in Queries : Search(q)
    \/ \E c \in DOMAIN commands, opened \in BOOLEAN : SearchDone(c, opened)
    \/ AsyncSearch

SpecSearch == Init /\ [][NextSearch]_vars


\* ----------------------------------------------------- AppModel: network

\* AppMsg::CheckNetwork: let selfonline = self.online; the command is started
\* with that copy.
CheckNetwork ==
    /\ Len(commands) < MaxCommands
    /\ commands' = Append(commands, NewCommand("checknetwork", apponline))
    /\ UNCHANGED << network, apponline, installeduserpkgs, searching, searchquery,
                    cmdout, emitted, otherVars >>

\* A command that asks for the database whenever the check reports online.
NeedsUpdateDBWhenOnline(isonline, selfonline) == isonline

\* if online && !selfonline
NeedsUpdateDB(isonline, selfonline) == isonline /\ ~selfonline

\* The command of CheckNetwork runs: it calls util::checkonline(), sends
\* AppMsg::UpdateDB to the window when NeedsUpdateDB, and ends with
\* AppAsyncMsg::SetNetwork(online).
NetworkChecked(c) ==
    /\ commands[c].kind = "checknetwork" /\ commands[c].pc = "running"
    /\ commands' = [commands EXCEPT ![c].pc = "done"]
    /\ emitted' = IF NeedsUpdateDB(network, commands[c].arg)
                  THEN Append(emitted, [to |-> "app", msg |-> "UpdateDB"])
                  ELSE emitted
    /\ cmdout' = Append(cmdout, [msg |-> "SetNetwork", online |-> network])
    /\ UNCHANGED << network, apponline, installeduserpkgs, searching, searchquery,
                    otherVars >>

\* update_cmd, AppAsyncMsg::SetNetwork(online)
AsyncSetNetwork ==
    /\ cmdout # << >>
    /\ Head(cmdout).msg = "SetNetwork"
    /\ cmdout' = Tail(cmdout)
    /\ apponline' = Head(cmdout).online
    /\ emitted' = emitted \o
           << [to |-> "updatepage", msg |-> "UpdateOnline", online |-> Head(cmdout).online],
              [to |-> "pkgpage", msg |-> "UpdateOnline", online |-> Head(cmdout).online] >>
    /\ UNCHANGED << network, installeduserpkgs, searching, searchquery, commands,
                    otherVars >>

NextNetwork ==
    \/ NetworkChanges
    \/ CheckNetwork
    \/ \E c \in DOMAIN commands : NetworkChecked(c)
    \/ AsyncSetNetwork

SpecNetwork == Init /\ [][NextNetwork]_vars


\* ================================================================ claims

\* The indices of the outcomes output for the sub-th Process message.
OutcomesOf(sub) == { i \in DOMAIN installout : installout[i].sub = sub }

\* C1: a task of the install worker (its work is non-blocking and of User
\* scope) whose subprocess was spawned and has exited has output exactly one
\* outcome, for its own work item: FinishedProcess exactly when the exit
\* status is zero, FailedProcess on a non-zero status or a wait error.  A task
\* still in flight has output nothing.
C1_OutcomeFollowsExit ==
    \A t \in DOMAIN tasks :
        /\ ~tasks[t].work.block /\ tasks[t].work.pkgtype = "User"
        /\ Running(tasks[t]) => OutcomesOf(tasks[t].sub) = {}
        /\ tasks[t].pc = "done" =>
               \E i \in DOMAIN installout :
                   /\ OutcomesOf(tasks[t].sub) = {i}
                   /\ installout[i].work = tasks[t].work
                   /\ installout[i].work = submitted[tasks[t].sub]
                   /\ installout[i].msg \in {"FinishedProcess", "FailedProcess"}
                   /\ installout[i].msg = "FinishedProcess" <=> tasks[t].status = "exit0"
                   /\ tasks[t].status \in {"exit1", "waiterr"} =>
                          installout[i].msg = "FailedProcess"

\* C1 witness: an Install and a Remove have both run to exit, one with status
\* zero and one with a non-zero status.
C1_Witness ==
    \E t, u \in DOMAIN tasks :
        /\ tasks[t].work.action = "Install" /\ tasks[u].work.action = "Remove"
        /\ tasks[t].pc = "done" /\ tasks[t].status = "exit0"
        /\ tasks[u].pc = "done" /\ tasks[u].status = "exit1"

\* The handling of the sub-th Process message has come to its end without a
\* cancellation: a System item at once, a User item when its task ended.
Settled(sub) ==
    \/ submitted[sub].pkgtype = "System"
    \/ \E t \in DOMAIN tasks :
           tasks[t].sub = sub /\ tasks[t].pc \in {"done", "panicked"}

\* C2: every accepted (non-blocking) work item gets at most one outcome, and
\* exactly one once its handling has ended without a cancellation.
C2_OneOutcomePerAccepted ==
    \A sub \in DOMAIN submitted :
        ~submitted[sub].block =>
            /\ Cardinality(OutcomesOf(sub)) <= 1
            /\ Settled(sub) => Cardinality(OutcomesOf(sub)) = 1

\* C3: a work item whose command could not be spawned has a Failed outcome
\* (FailedProcess from the install worker, FailedWorking from the update
\* worker).
C3_SpawnFailureReported ==
    /\ \A t \in DOMAIN tasks :
           tasks[t].status = "spawnerr" =>
               \E i \in OutcomesOf(tasks[t].sub) : installout[i].msg = "FailedProcess"
    /\ \A t \in DOMAIN updatetasks :
           "spawnerr" \in {updatetasks[t].status, updatetasks[t].rmstatus} =>
               \E i \in DOMAIN updateout :
                   updateout[i] = [msg |-> "FailedWorking", task |-> t]

\* C4: the update worker outputs DoneWorking only for an upgrade command that
\* exited with status zero, and FailedWorking for one that exited non-zero.
C4_DoneOnlyOnZeroExit ==
    \A i \in DOMAIN updateout :
        LET task == updatetasks[updateout[i].task] IN
        /\ updateout[i].msg = "DoneWorking" => task.status = "exit0"
        /\ task.status = "exit1" => updateout[i].msg = "FailedWorking"

\* The step in which the window handles RemoveInstalledBusy(work).
HandlesRemoveInstalledBusy(work) ==
    installedpagein' = Append(installedpagein, [msg |-> "UnsetBusy", work |-> work])

\* C5: handling RemoveInstalledBusy(w) keeps every busy entry that is not w's
\* (package, scope) pair.
C5_RemoveKeepsOthers ==
    [][\A work \in WorkPkg :
          HandlesRemoveInstalledBusy(work) =>
              \A i \in DOMAIN installedpagebusy :
                  installedpagebusy[i] # BusyEntry(work) =>
                      \E j \in DOMAIN installedpagebusy' :
                          installedpagebusy'[j] = installedpagebusy[i]]_vars

\* C6: the busy list never holds two entries for the same (package, scope).
C6_NoDuplicateBusy ==
    \A i, j \in DOMAIN installedpagebusy :
        i # j => installedpagebusy[i] # installedpagebusy[j]

\* C7: each worker has at most one spawned task that has neither finished nor
\* been aborted.
C7_AtMostOneTask ==
    /\ Cardinality({ t \in DOMAIN tasks : Running(tasks[t]) }) <= 1
    /\ Cardinality({ t \in DOMAIN updatetasks : UpdateRunning(updatetasks[t]) }) <= 1

\* The step in which the install worker handles Process(work).
HandlesProcess(work) == submitted' = Append(submitted, work)

\* C8: handling Process(w) for a blocking w spawns no task, outputs nothing
\* and leaves the tracked handle and the pid as they were.
C8_BlockedIsNoOp ==
    [][\A work \in ProcessInputs :
          (work.block /\ HandlesProcess(work)) =>
              UNCHANGED << process, pid, tasks, installout >>]_vars

\* C8 witness: a blocking work item was handled while a task was tracked and
\* a pid was set; the task is still the one tracked and nothing was output.
C8_Witness ==
    /\ Len(submitted) = 2 /\ submitted[2].block
    /\ Len(tasks) = 1 /\ process = Some(1) /\ pid # None
    /\ installout = << >>

\* C9 as stated: handling Process(w) for any w of System scope outputs
\* FailedProcess(w) at once and spawns nothing.
C9_SystemAlwaysFails ==
    [][\A work \in ProcessInputs :
          (work.pkgtype = "System" /\ HandlesProcess(work)) =>
              /\ installout' = Append(installout,
                     Outcome("FailedProcess", work, Len(submitted')))
              /\ UNCHANGED << process, tasks >>]_vars

\* C9 amended: handling Process(w) for a w of System scope whose blocking
\* flag is clear outputs FailedProcess(w) at once, spawns nothing and leaves
\* the tracked handle as it was, whatever its action and package.
C9_NonBlockingSystemFails ==
    [][\A work \in ProcessInputs :
          (work.pkgtype = "System" /\ ~work.block /\ HandlesProcess(work)) =>
              /\ installout' = Append(installout,
                     Outcome("FailedProcess", work, Len(submitted')))
              /\ UNCHANGED << process, pid, tasks >>]_vars

\* C9 witness: a System work item was refused while a User task was tracked.
C9_Witness ==
    /\ Len(submitted) = 2 /\ submitted[2].pkgtype = "System" /\ ~submitted[2].block
    /\ process = Some(1) /\ Running(tasks[1])
    /\ installout = << Outcome("FailedProcess", submitted[2], 2) >>

\* C10: CancelProcess aborts the tracked task, if there is one, and leaves
\* both the handle and the pid empty in the same step; and whenever both are
\* empty the worker takes a further Process message, which for a non-blocking
\* User work item spawns the task of its command and tracks it.
C10_CancelClearsAndAccepts ==
    /\ [][CancelProcess =>
             /\ process' = None /\ pid' = None
             /\ process # None => ~Running(tasks'[process[1]])
             /\ \A t \in DOMAIN tasks : process # Some(t) => tasks'[t] = tasks[t]]_vars
    /\ []((process = None /\ pid = None /\ Len(submitted) < MaxSubmit) =>
             \A work \in ProcessInputs : ENABLED Process(work))
    /\ [][\A work \in ProcessInputs :
             (~work.block /\ work.pkgtype = "User" /\ HandlesProcess(work)) =>
                 /\ Len(tasks') = Len(tasks) + 1
                 /\ process' = Some(Len(tasks'))
                 /\ tasks'[Len(tasks')].work = work
                 /\ tasks'[Len(tasks')].pc = "spawn"]_vars

\* C10 witness: a running task was aborted by a cancellation, both fields are
\* empty, and a work item submitted afterwards has spawned its command.
C10_Witness ==
    \E t, u \in DOMAIN tasks :
        /\ t < u
        /\ tasks[t].pc = "aborted"
        /\ tasks[u].pc = "drain" /\ tasks[u].cmd = Some(Command(tasks[u].work))
        /\ process = Some(u) /\ pid = None

\* C11: a CancelProcess handled while the tracked task has not output its
\* outcome aborts that task; an aborted task never moves again and never has
\* an outcome; and the step itself outputs nothing, so no message reaches the
\* window and its busy list is as it was.
C11_CancelIsSilent ==
    /\ [][CancelProcess =>
             /\ UNCHANGED << installout, windowVars, relayed >>
             /\ (process # None /\ Running(tasks[process[1]])) =>
                    tasks'[process[1]].pc = "aborted"]_vars
    /\ [](\A t \in DOMAIN tasks :
             tasks[t].pc = "aborted" => OutcomesOf(tasks[t].sub) = {})
    /\ [][\A t \in DOMAIN tasks :
             tasks[t].pc = "aborted" =>
                 /\ tasks'[t] = tasks[t]
                 /\ \A i \in DOMAIN installout' : installout'[i].sub # tasks[t].sub]_vars

\* C11 witness: the task of the last work item was aborted while its command
\* was running; another task has since ended and output its own outcome, and
\* there is none for the aborted one.
C11_Witness ==
    \E t, u \in DOMAIN tasks :
        /\ tasks[t].pc = "aborted" /\ tasks[t].cmd # None
        /\ tasks[u].pc = "done"
        /\ Len(installout) = 1 /\ installout[1].sub = tasks[u].sub
        /\ process = None

\* The entries of the busy list.
BusySet(busy) == { busy[i] : i \in DOMAIN busy }

\* C12: whenever a task of the install worker spawns the command of its work
\* item, the busy list holds the (package, scope) entry of that work item.
C12_BusyBeforeSpawn ==
    [][\A t \in DOMAIN tasks :
          (tasks[t].pc = "spawn" /\ tasks'[t].pc = "drain") =>
              BusyEntry(tasks[t].work) \in BusySet(installedpagebusy)]_vars

\* The step in which the window handles AddInstalledToWorkQueue(work).
HandlesAddInstalledToWorkQueue(work) ==
    pkgpagein' = Append(pkgpagein, [msg |-> "AddToQueue", work |-> work])

\* C13: right after AddInstalledToWorkQueue(w) the busy list holds w's
\* (package, scope) entry; right after RemoveInstalledBusy(w) it holds none,
\* however often the pair had been enqueued.
C13_BusyReconciled ==
    [][\A work \in WorkPkg :
          /\ HandlesAddInstalledToWorkQueue(work) =>
                 BusyEntry(work) \in BusySet(installedpagebusy')
          /\ HandlesRemoveInstalledBusy(work) =>
                 BusyEntry(work) \notin BusySet(installedpagebusy')]_vars

\* C13 witness: the pair was enqueued twice, and RemoveInstalledBusy for it
\* has just been handled: only the entry of another package and scope is left.
C13_Witness ==
    /\ installedpagein # << >>
    /\ installedpagein[Len(installedpagein)].msg = "UnsetBusy"
    /\ LET work == installedpagein[Len(installedpagein)].work IN
       /\ work.pkgtype = "User" /\ work.pname = "htop"
    /\ installedpagebusy = << << "vim-full", "System" >> >>

\* C14: when the connectivity check of UpdateAllUser reports offline, nothing
\* is sent to the update worker and no task is spawned (no lookup, no update
\* task); the page outputs AppMsg::CheckNetwork, its online flag becomes
\* false, and the busy list of the installed page is left as it was.
C14_OfflineBlocksUpgrade ==
    [][UpdateAllUser(FALSE) =>
          /\ UNCHANGED << updatein, lookups, updateVars, installedpagebusy >>
          /\ updatepageout' = Append(updatepageout, AppMsg("CheckNetwork", << >>))
          /\ online' = FALSE]_vars

\* The page has answered an offline check while an earlier bulk upgrade is
\* still running in the worker.
C14_Witness ==
    /\ updatepageout # << >>
    /\ updatepageout[Len(updatepageout)].msg = "CheckNetwork"
    /\ online = FALSE
    /\ lookups = 0
    /\ updatein = << >>
    /\ Len(updatetasks) = 1
    /\ UpdateRunning(updatetasks[1])

\* The AppMsg named msg among the messages the update page has output.
OutputCount(msg) ==
    Cardinality({ i \in DOMAIN updatepageout : updatepageout[i].msg = msg })

\* The outcomes named msg among those the update page has handled.
HandledCount(msg) ==
    Cardinality({ i \in 1..delivered : updateout[i].msg = msg })

\* C16: for every outcome the update page has received, DoneWorking or
\* FailedWorking, it has output one AppMsg::UpdateInstalledPkgs; the icon
\* cache has been refreshed once per DoneWorking and never for FailedWorking.
C16_RefreshOnEitherOutcome ==
    /\ OutputCount("UpdateInstalledPkgs") = delivered
    /\ iconrefreshes = HandledCount("DoneWorking")

\* Update tasks that were given a non-empty removal list.
RemovalTasks ==
    { t \in DOMAIN updatetasks :
        updatetasks[t].rmpkgs # None /\ updatetasks[t].rmpkgs[1] # << >> }

\* The upgrade command has been issued by the task, or its spawn has failed.
UpgradeAttempted(task) ==
    \/ task.cmds = << ProfileRemoveCommand(task.rmpkgs[1]), ProfileUpgradeCommand >>
    \/ task.cmds = << ProfileRemoveCommand(task.rmpkgs[1]) >> /\ task.status = "spawnerr"

\* C15 (as stated): a bulk upgrade with a non-empty removal list goes on to
\* the upgrade command once the remove command is over, whatever its outcome
\* was: zero exit, non-zero exit, or failure to spawn or to wait on it.
C15_UpgradeAfterAnyRemove ==
    \A t \in RemovalTasks :
        updatetasks[t].rmstatus # "none" => UpgradeAttempted(updatetasks[t])

\* C15 (amended): a bulk upgrade with a non-empty removal list first issues
\* one remove command for all listed packages; once that command has exited,
\* with a zero or a non-zero status, the upgrade command is issued next; when
\* the remove command cannot be spawned or waited on, the task ends with
\* FailedWorking and no upgrade command is issued.
C15_UpgradeAfterRemoveExit ==
    \A t \in RemovalTasks :
        LET task == updatetasks[t]
            remove == ProfileRemoveCommand(task.rmpkgs[1])
        IN  /\ task.pc # "start" =>
                   \/ task.cmds = << >> /\ task.rmstatus = "spawnerr"
                   \/ task.cmds # << >> /\ task.cmds[1] = remove
            /\ \A i \in DOMAIN task.cmds : task.cmds[i] = remove => i = 1
            /\ task.pc \in {"rmdrain", "rmwait"} => task.cmds = << remove >>
            /\ task.rmstatus \in {"exit0", "exit1"} => UpgradeAttempted(task)
            /\ task.rmstatus \in {"spawnerr", "waiterr"} =>
                   /\ task.pc = "done"
                   /\ \A i \in DOMAIN task.cmds : task.cmds[i] # ProfileUpgradeCommand
                   /\ \E i \in DOMAIN updateout :
                          updateout[i] = UpdateMsg("FailedWorking", t)

\* A remove command that exited non-zero was followed by an upgrade that
\* succeeded, and another task failed to wait on its remove command.
C15_Witness ==
    \E t, u \in RemovalTasks :
        /\ updatetasks[t].rmstatus = "exit1"
        /\ Len(updatetasks[t].cmds) = 2
        /\ updatetasks[t].status = "exit0"
        /\ updatetasks[u].rmstatus = "waiterr"

\* The Process messages whose handling ended in a FailedProcess outcome.
FailedSubs == { installout[i].sub : i \in { j \in DOMAIN installout :
                                              installout[j].msg = "FailedProcess" } }

\* C17: a failed work item does not block the install worker.  Once a
\* FailedProcess has been output (unsupported scope, non-zero exit or wait
\* error) the worker still takes any further Process message; for a
\* non-blocking User work item that step spawns and tracks the task of its
\* command; that task can spawn its command, and when the command has exited
\* the task has output one outcome, for its own work item.
C17_FailureDoesNotBlock ==
    /\ []((FailedSubs # {} /\ Len(submitted) < MaxSubmit) =>
             \A work \in ProcessInputs : ENABLED Process(work))
    /\ [][\A work \in ProcessInputs :
             (FailedSubs # {} /\ ~work.block /\ work.pkgtype = "User"
                  /\ HandlesProcess(work)) =>
                 /\ tasks' = Append(tasks, NewTask(work, Len(submitted')))
                 /\ process' = Some(Len(tasks'))
                 /\ installout' = installout]_vars
    /\ [](\A t \in DOMAIN tasks :
             (\E f \in FailedSubs : f < tasks[t].sub) =>
                 /\ tasks[t].pc = "spawn" => ENABLED TaskSpawn(t, TRUE)
                 /\ tasks[t].pc = "done" =>
                        \E i \in DOMAIN installout :
                            /\ OutcomesOf(tasks[t].sub) = {i}
                            /\ installout[i].work = tasks[t].work
                            /\ installout[i].msg = "FinishedProcess"
                                   <=> tasks[t].status = "exit0")

\* A command exited non-zero and its item failed; the next item was taken,
\* its command was spawned and exited with zero, and it is reported finished.
C17_Witness ==
    /\ Len(installout) = 2 /\ Len(tasks) = 2
    /\ installout[1].msg = "FailedProcess" /\ installout[1].sub = 1
    /\ tasks[1].status = "exit1"
    /\ installout[2].msg = "FinishedProcess" /\ installout[2].sub = 2
    /\ tasks[2].cmd # None /\ tasks[2].pc = "done"

\* How far a task of the install worker has come; its command is spawned in
\* the step that leaves 0.
TaskRank(task) ==
    CASE task.pc = "spawn" -> 0
      [] task.pc = "drain" -> 1
      [] task.pc \in {"wait", "waitreaderr"} -> 2
      [] OTHER -> 3

\* How far updateprofile has come; the remove command is spawned in the step
\* that leaves 0, the upgrade command in the step that leaves 0 or 2.
UpdateRank(task) ==
    CASE task.pc = "start" -> 0
      [] task.pc = "rmdrain" -> 1
      [] task.pc = "rmwait" -> 2
      [] task.pc = "updrain" -> 3
      [] task.pc = "upwait" -> 4
      [] OTHER -> 5

\* The positions of command cmd among the commands a task has spawned.
SpawnsOf(cmds, cmd) == { i \in DOMAIN cmds : cmds[i] = cmd }

\* C18: no automatic retry.  A task is created only by the handling of a
\* message, one task per message; a task never comes back to the point where
\* it spawns a command, whatever the result was, and a task that has ended
\* stays as it is; so the install worker spawns the command of a Process
\* message at most once and the update worker spawns each of the remove and
\* the upgrade command at most once per message.
C18_NoRetry ==
    /\ [][/\ Len(tasks') > Len(tasks) =>
                 /\ Len(submitted') = Len(submitted) + 1
                 /\ tasks' = Append(tasks, NewTask(submitted'[Len(submitted')],
                                                  Len(submitted')))
          /\ \A t \in DOMAIN tasks :
                 /\ TaskRank(tasks'[t]) >= TaskRank(tasks[t])
                 /\ tasks[t].cmd # None => tasks'[t].cmd = tasks[t].cmd
                 /\ TaskRank(tasks[t]) = 3 => tasks'[t] = tasks[t]
          /\ \A t \in DOMAIN updatetasks :
                 /\ UpdateRank(updatetasks'[t]) >= UpdateRank(updatetasks[t])
                 /\ UpdateRank(updatetasks[t]) = 5 => updatetasks'[t] = updatetasks[t]
                 /\ updatetasks'[t].cmds # updatetasks[t].cmds =>
                        /\ UpdateRank(updatetasks'[t]) > UpdateRank(updatetasks[t])
                        /\ \E cmd \in {ProfileUpgradeCommand}
                                   \cup {ProfileRemoveCommand(l) : l \in RmLists} :
                               updatetasks'[t].cmds = Append(updatetasks[t].cmds, cmd)]_vars
    /\ [](/\ \A t, u \in DOMAIN tasks : tasks[t].sub = tasks[u].sub => t = u
          /\ Len(tasks) <= Len(submitted)
          /\ \A t \in DOMAIN updatetasks :
                 /\ Cardinality(SpawnsOf(updatetasks[t].cmds, ProfileUpgradeCommand)) <= 1
                 /\ \A l \in RmLists :
                        Cardinality(SpawnsOf(updatetasks[t].cmds,
                                             ProfileRemoveCommand(l))) <= 1
                 /\ Len(updatetasks[t].cmds) <= 2)

\* The command of a Process message exited non-zero, its failure was output,
\* and a second message for the same work item has had its own task spawned.
C18_Witness ==
    /\ Len(tasks) = 2
    /\ tasks[1].pc = "done" /\ tasks[1].status = "exit1" /\ tasks[1].cmd # None
    /\ installout = << Outcome("FailedProcess", tasks[1].work, 1) >>
    /\ tasks[2].work = tasks[1].work /\ tasks[2].sub = 2

\* C19: a worker's tracked handle is set only while its task is in flight:
\* when no task of the install worker is running its process field is empty,
\* and likewise for the update worker.
C19_HandleOnlyWhileRunning ==
    /\ (\A t \in DOMAIN tasks : ~Running(tasks[t])) => process = None
    /\ (\A t \in DOMAIN updatetasks : ~UpdateRunning(updatetasks[t])) =>
           updateprocess = None

\* C20: the command a task of the install worker has spawned is determined
\* by the action, scope and package of its work item: for Install/User it is
\* nix profile install nixpkgs#<pkg> --impure, for Remove/User it is
\* nix profile remove legacyPackages.x86_64-linux.<pkg> with no --impure; two
\* tasks whose work items agree on the three fields have spawned the same
\* command, whatever the worker held and had handled before.
C20_CommandDeterministic ==
    /\ \A t \in DOMAIN tasks :
           tasks[t].cmd # None =>
               LET work == tasks[t].work IN
               /\ work.pkgtype = "User"
               /\ work.action = "Install" =>
                      tasks[t].cmd = Some(<< "nix", "profile", "install",
                                            << "nixpkgs#", work.pkg >>, "--impure" >>)
               /\ work.action = "Remove" =>
                      tasks[t].cmd = Some(<< "nix", "profile", "remove",
                                            << "legacyPackages.x86_64-linux.", work.pkg >> >>)
    /\ \A t, u \in DOMAIN tasks :
           (/\ tasks[t].cmd # None /\ tasks[u].cmd # None
            /\ tasks[t].work.action = tasks[u].work.action
            /\ tasks[t].work.pkgtype = tasks[u].work.pkgtype
            /\ tasks[t].work.pkg = tasks[u].work.pkg) =>
               tasks[t].cmd = tasks[u].cmd

\* The same removal was submitted twice: the first command failed and a pid
\* was recorded before the second was spawned.
C20_Witness ==
    /\ Len(tasks) = 2
    /\ tasks[1].work.action = "Remove" /\ tasks[2].work.action = "Remove"
    /\ tasks[1].status = "exit1" /\ tasks[1].cmd # None
    /\ pid # None
    /\ tasks[2].cmd # None /\ tasks[2].pc = "drain"

\* The tasks of the install worker that are running and not the tracked one.
Detached == { t \in DOMAIN tasks : Running(tasks[t]) /\ process # Some(t) }

\* C21: when a non-blocking User Process message is handled while the task of
\* an earlier work item is still running, that task is left as it is (neither
\* aborted nor awaited) and only the tracked handle changes, to the new task;
\* the earlier task can take each of its further steps and, once its command
\* has exited, has output the outcome of its own work item; a CancelProcess
\* handled later leaves every task but the tracked one as it is.
C21_ReplacedTaskRunsOn ==
    /\ [][\A work \in ProcessInputs :
             (~work.block /\ work.pkgtype = "User" /\ HandlesProcess(work)
                  /\ process # None /\ Running(tasks[process[1]])) =>
                 /\ \A t \in DOMAIN tasks : tasks'[t] = tasks[t]
                 /\ process' = Some(Len(tasks) + 1)
                 /\ process[1] \in Detached'
                 /\ installout' = installout /\ pid' = pid]_vars
    /\ [][CancelProcess => \A t \in Detached : tasks'[t] = tasks[t]]_vars
    /\ [](\A t \in Detached :
             /\ tasks[t].pc = "spawn" => ENABLED TaskSpawn(t, TRUE)
             /\ tasks[t].pc = "drain" => \A how \in ReadEnds : ENABLED TaskDrained(t, how)
             /\ tasks[t].pc \in {"wait", "waitreaderr"} => \A res \in WaitResults : ENABLED TaskWait(t, res))
    /\ [](\A t \in DOMAIN tasks :
             (tasks[t].pc = "done" /\ process # Some(t)) =>
                 \E i \in DOMAIN installout :
                     /\ OutcomesOf(tasks[t].sub) = {i}
                     /\ installout[i] = Outcome(WaitOutcome(tasks[t].status),
                                                tasks[t].work, tasks[t].sub))

\* The second task was aborted by a cancellation; the first, replaced as
\* the tracked task when the second was spawned, is still running: its
\* command has been spawned and its stderr read to the end.
C21_Witness ==
    /\ Len(tasks) = 2 /\ process = None
    /\ tasks[2].pc = "aborted"
    /\ tasks[1].pc = "wait" /\ tasks[1].cmd # None
    /\ installout = << >>

\* C22: a task of the install worker outputs its outcome only in the step in
\* which p.wait() returns, and only after the read loop has read stderr to
\* its end; which outcome it is depends on the exit status alone: tasks that
\* ended with the same status have output the same message, however many
\* lines they read.
C22_OutcomeAfterDrain ==
    /\ [][\A t \in DOMAIN tasks :
             (/\ Len(installout') = Len(installout) + 1
              /\ installout'[Len(installout')].sub = tasks[t].sub) =>
                 /\ tasks[t].pc = WaitPc("eof")
                 /\ tasks'[t].pc = "done"
                 /\ tasks'[t].status \in WaitResults]_vars
    /\ [](\A t, u \in DOMAIN tasks :
             (tasks[t].pc = "done" /\ tasks[u].pc = "done"
                  /\ tasks[t].status = tasks[u].status) =>
                 \A i \in OutcomesOf(tasks[t].sub), j \in OutcomesOf(tasks[u].sub) :
                     installout[i].msg = installout[j].msg)

\* C23: every bulk-update request is gated by the connectivity check: when
\* the system is offline while UpdateAllUser or UpdateAllUserRm(pkgs) is
\* handled, the step sends nothing to the update worker and starts no lookup.
C23_EveryRequestGated ==
    [][(/\ ~network
        /\ \/ UpdateAllUser(network)
           \/ \E pkgs \in RmLists : UpdateAllUserRm(pkgs)) =>
           UNCHANGED << updatein, lookups, updateVars >>]_vars

\* C26: when the lookup started by an online UpdateAllUser returns a
\* non-empty list, nothing is sent to the update worker and
\* AppMsg::GetUnavailableItems with that list is output; when it returns an
\* empty list or an error, UpdateUserPkgs is sent to the worker and nothing is
\* output.  The UpdateAllUser step itself sends nothing.
C26_UnavailableItemsFirst ==
    /\ [][\A result \in LookupResults :
             UnavailableLookup(result) =>
                 IF result.ok /\ result.pkgs # << >>
                 THEN /\ updatein' = updatein
                      /\ updatepageout' = Append(updatepageout,
                             [msg |-> "GetUnavailableItems", pkgs |-> result.pkgs])
                 ELSE /\ updatein' = Append(updatein,
                             [msg |-> "UpdateUserPkgs", rmpkgs |-> None])
                      /\ updatepageout' = updatepageout]_vars
    /\ [][UpdateAllUser(TRUE) => updatein' = updatein /\ lookups' = lookups + 1]_vars
    /\ [][(\E i \in DOMAIN updatein' : updatein'[i].msg = "UpdateUserPkgs"
                /\ \A j \in DOMAIN updatein : updatein[j].msg # "UpdateUserPkgs") =>
             \E result \in LookupResults :
                 UnwrapOrDefault(result) = << >> /\ UnavailableLookup(result)]_vars

\* The lookup of an online request has found an unavailable package: the
\* page has output GetUnavailableItems and the worker was sent nothing.
C26_Witness ==
    /\ lookups = 0 /\ updatein = << >> /\ updatetasks = << >>
    /\ updatepageout # << >>
    /\ updatepageout[Len(updatepageout)] =
           [msg |-> "GetUnavailableItems", pkgs |-> << "htop" >>]

\* The outcomes update task t has output.
UpdateOutcomesOf(t) == { i \in DOMAIN updateout : updateout[i].task = t }

\* C24: every UpdateUserPkgs or UpdateUserPkgsRemove message the update
\* worker handles eventually has exactly one outcome, DoneWorking or
\* FailedWorking, and never more than one; this holds for each of several
\* messages handled while the tasks of earlier ones are still running.
C24_EveryUpdateGetsOutcome ==
    /\ [](\A t \in DOMAIN updatetasks :
             /\ Cardinality(UpdateOutcomesOf(t)) <= 1
             /\ \A i \in UpdateOutcomesOf(t) :
                    updateout[i].msg \in {"DoneWorking", "FailedWorking"})
    /\ \A t \in 1..MaxUpdate :
           [](t \in DOMAIN updatetasks =>
                 <>[](Cardinality(UpdateOutcomesOf(t)) = 1))

\* Two messages were handled before the first task had ended, and both
\* tasks have output their outcome, the second before the first.
C24_Witness ==
    /\ Len(updatetasks) = 2 /\ Len(updateout) = 2
    /\ updateout[1].task = 2 /\ updateout[2].task = 1
    /\ updateout[1].msg = "FailedWorking" /\ updateout[2].msg = "DoneWorking"

\* C25: a bulk upgrade submitted with an empty removal list runs as a plain
\* one does: its task spawns no remove command, the only command it spawns
\* is nix profile upgrade .* --impure, and each of its steps changes it as
\* the same step changes the task of a plain UpdateUserPkgs, so that the same
\* results of spawn and wait give the same commands and the same outcome.
C25_EmptyListIsPlainUpgrade ==
    /\ \A t \in DOMAIN updatetasks :
           updatetasks[t].rmpkgs \in {None, Some(<< >>)} =>
               /\ updatetasks[t].pc \notin {"rmdrain", "rmwait"}
               /\ updatetasks[t].rmstatus = "none"
               /\ updatetasks[t].cmds \in
                      { << >>, << << "nix", "profile", "upgrade", ".*", "--impure" >> >> }
    /\ \A t, u \in DOMAIN updatetasks :
           (/\ updatetasks[t].rmpkgs = Some(<< >>) /\ updatetasks[u].rmpkgs = None
            /\ updatetasks[t].pc = updatetasks[u].pc
            /\ updatetasks[t].status = updatetasks[u].status) =>
               /\ updatetasks[t].cmds = updatetasks[u].cmds
               /\ { updateout[i].msg : i \in UpdateOutcomesOf(t) }
                      = { updateout[i].msg : i \in UpdateOutcomesOf(u) }

\* A bulk upgrade with an empty removal list and a plain one have both run
\* their upgrade command to a zero exit.
C25_Witness ==
    \E t, u \in DOMAIN updatetasks :
        /\ updatetasks[t].rmpkgs = Some(<< >>) /\ updatetasks[u].rmpkgs = None
        /\ updatetasks[t].status = "exit0" /\ updatetasks[u].status = "exit0"
        /\ Len(updateout) = 2

\* The step in which update_cmd handles the AppAsyncMsg named msg.
HandlesAsync(msg) ==
    cmdout # << >> /\ Head(cmdout).msg = msg /\ cmdout' = Tail(cmdout)

\* C27: when a refresh result is handled and equals the cached inventory,
\* the cache stays as it is and nothing is sent, neither UpdateInstalledPage
\* nor an update of the search page; when it differs the cache becomes the
\* result and AppMsg::UpdateInstalledPage is sent.  Either way the cache
\* equals the handled result afterwards.
C27_InventoryFollowsResult ==
    [][HandlesAsync("UpdateInstalledPkgs") =>
          LET new == Head(cmdout).pkgs IN
          /\ installeduserpkgs' = new
          /\ new = installeduserpkgs => emitted' = emitted
          /\ new # installeduserpkgs =>
                 /\ Len(emitted') > Len(emitted)
                 /\ emitted'[Len(emitted) + 1] = [to |-> "app", msg |-> "UpdateInstalledPage"]
                 /\ \A i \in DOMAIN emitted : emitted'[i] = emitted[i]]_vars

\* Two refresh results were handled while searching: one changed the cache
\* and was announced to the window and the search page, the other equalled
\* the cache and nothing was sent for it.
C27_Witness ==
    /\ Len(commands) = 2 /\ cmdout = << >>
    /\ \A c \in DOMAIN commands : commands[c].pc = "done"
    /\ installeduserpkgs = { << "htop", "3.3" >> }
    /\ emitted = << [to |-> "app", msg |-> "UpdateInstalledPage"],
                    [to |-> "searchpage", msg |-> "UpdateInstalled", keys |-> {"htop"}] >>

\* The query of the search issued last.
LastQuery == commands[Len(commands)].arg

\* C28: when the result Search(q, items) of a background search is handled,
\* it is forwarded to the search page exactly when q equals the query of the
\* search issued last; a result whose query has been superseded by another
\* one is dropped, in whatever order the searches in flight end.
C28_StaleResultsDropped ==
    /\ [][HandlesAsync("Search") =>
             IF Head(cmdout).q = LastQuery
             THEN emitted' = Append(emitted, [to |-> "searchpage", msg |-> "Search",
                                              items |-> Head(cmdout).items])
             ELSE emitted' = emitted]_vars
    /\ [](\A i \in DOMAIN emitted :
             emitted[i].msg = "Search" =>
                 /\ commands[emitted[i].items].pc = "done"
                 /\ \A j \in DOMAIN cmdout : cmdout[j].items # emitted[i].items)

\* Two searches for different texts were in flight; the later one ended
\* first and its result was forwarded, then the result of the earlier one
\* was handled and dropped.
C28_Witness ==
    /\ Len(commands) = 2 /\ cmdout = << >>
    /\ commands[1].pc = "done" /\ commands[2].pc = "done"
    /\ commands[1].arg # commands[2].arg
    /\ emitted = << [to |-> "searchpage", msg |-> "Search", items |-> 2] >>

\* The network checks that have run to their end.
ChecksDone == { c \in DOMAIN commands : commands[c].pc = "done" }

\* The SetNetwork messages update_cmd has handled.
SetNetworkHandled == { i \in DOMAIN emitted : emitted[i].to = "updatepage" }

\* C29: the command started by CheckNetwork captures the window's online
\* flag; when it runs it sends SetNetwork with what the connectivity check
\* reports, always, and asks for AppMsg::UpdateDB exactly when the check
\* reports online and the captured flag was false; handling SetNetwork(b)
\* sets the window's online flag to b and sends UpdateOnline(b) to the update
\* page and to the package page.
C29_NetworkRecheck ==
    /\ [][Len(commands') > Len(commands) =>
             /\ commands' = Append(commands,
                    [kind |-> "checknetwork", arg |-> apponline, pc |-> "running"])
             /\ UNCHANGED << apponline, cmdout, emitted >>]_vars
    /\ [][\A c \in DOMAIN commands :
             (commands[c].pc = "running" /\ commands'[c].pc # "running") =>
                 /\ cmdout' = Append(cmdout, [msg |-> "SetNetwork", online |-> network])
                 /\ emitted' = IF network /\ ~commands[c].arg
                               THEN Append(emitted, [to |-> "app", msg |-> "UpdateDB"])
                               ELSE emitted
                 /\ apponline' = apponline]_vars
    /\ [][HandlesAsync("SetNetwork") =>
             /\ apponline' = Head(cmdout).online
             /\ emitted' = emitted \o
                    << [to |-> "updatepage", msg |-> "UpdateOnline",
                        online |-> Head(cmdout).online],
                       [to |-> "pkgpage", msg |-> "UpdateOnline",
                        online |-> Head(cmdout).online] >>]_vars
    /\ [](Cardinality(ChecksDone) = Len(cmdout) + Cardinality(SetNetworkHandled))

\* A first check found the system offline and the window went offline; a
\* second check, started then, found it online again: UpdateDB was asked for
\* and both pages were told.
C29_Witness ==
    /\ apponline /\ cmdout = << >>
    /\ emitted = << [to |-> "updatepage", msg |-> "UpdateOnline", online |-> FALSE],
                    [to |-> "pkgpage", msg |-> "UpdateOnline", online |-> FALSE],
                    [to |-> "app", msg |-> "UpdateDB"],
                    [to |-> "updatepage", msg |-> "UpdateOnline", online |-> TRUE],
                    [to |-> "pkgpage", msg |-> "UpdateOnline", online |-> TRUE] >>

=============================================================================
